---- MODULE Spec2Model ----
(***************************************************************************)
(* Model of gardin_api_query_example.py: a single-threaded client that     *)
(* obtains a token, submits a query, polls its status, asks for the signed *)
(* result location and downloads the result to a file.                     *)
(*                                                                         *)
(* The remote side is the environment: every request is answered, and the  *)
(* answer (status code, body text) is chosen nondeterministically.  One    *)
(* action is one blocking call of main together with the handling of its   *)
(* response; the polling loop is one action per iteration plus the sleep.  *)
(***************************************************************************)
EXTENDS Integers, Sequences, FiniteSets

VARIABLES
    pc,               \* where main is: the call it makes next, "done" or "raised"
    token,            \* main: token
    headers,          \* main: headers (only the Authorization entry varies)
    query_id,         \* main: query_id
    query_completed,  \* main: query_completed (FALSE until monitor_query_status returns)
    signed_uri,       \* main: signed_uri
    response,         \* the last requests.Response received
    calls,            \* history: every request, sleep and file write, in order
    observed,         \* history: the status of every parsed status response
    out,              \* the lines printed since the last request was issued
    error,            \* the exception that ended the run, or NoError
    now,              \* time(): the clock, in seconds
    csv_filename,     \* save_results: csv_filename
    client_id,        \* the CLIENT_ID the program is configured with
    client_secret,    \* the CLIENT_SECRET the program is configured with
    auth_headers,     \* get_auth_token: auth_headers['Authorization']
    open_files,       \* the names of the files main holds an open handle on
    files             \* the file system: the files written

vars == <<pc, token, headers, query_id, query_completed, signed_uri, response,
          calls, observed, out, error, now, csv_filename, client_id, client_secret,
          auth_headers, open_files, files>>

---------------------------------------------------------------------------
(* Bounds of the model *)

\* The environment answers at most MaxPolls status requests with a pending status.
MaxPolls == 3

\* The clock value when main starts.
StartTime == 1000

\* The longest client id and client secret the credential encoding is tried on.
MaxCredLen == 2

---------------------------------------------------------------------------
(* Program constants *)

\* Credentials are strings as sequences of Unicode code points.
\* CLIENT_ID is '<YOUR_CLIENT_ID>', CLIENT_SECRET is '<YOUR_CLIENT_SECRET>'.
CLIENT_ID == <<60, 89, 79, 85, 82, 95, 67, 76, 73, 69, 78, 84, 95, 73, 68, 62>>
CLIENT_SECRET ==
    <<60, 89, 79, 85, 82, 95, 67, 76, 73, 69, 78, 84, 95, 83, 69, 67, 82, 69, 84, 62>>
QUERY_STATUS_POLLING_WAIT_SECS == 10
CSV_DOWNLOAD_PATH_PREFIX == "gardin_query_api_results_"

login_url == <<"https://login.gardin.ag/oauth2/token">>
query_url == <<"https://api.gardin.ag/v1/query">>
status_url(id) == <<"https://api.gardin.ag/v1/query/", id, "/status/">>
download_url(id) == <<"https://api.gardin.ag/v1/query/", id, "/result/download">>

---------------------------------------------------------------------------
(* The environment: HTTP responses *)

\* Status codes the servers may answer with, and their reason phrases.
StatusCodes == {200, 300, 403, 500}

Reason(code) ==
    CASE code = 200 -> "OK"
      [] code = 300 -> "Multiple Choices"
      [] code = 403 -> "Forbidden"
      [] code = 500 -> "Internal Server Error"

\* Body texts.  NotJsonText stands for any body json.loads rejects.
NotJsonText == "<html>"
EmptyObjectText == "{}"
TokenTexts == {NotJsonText, EmptyObjectText, "{\"access_token\": \"tokA\"}"}
SubmitTexts == {NotJsonText, EmptyObjectText, "{\"queryId\": \"abc123\"}"}
StatusTexts ==
    {NotJsonText, EmptyObjectText,
     "{\"status\": \"SUBMITTED\"}", "{\"status\": \"IN_PROGRESS\"}",
     "{\"status\": \"RUNNING\"}", "{\"status\": \"COMPLETED\"}",
     "{\"status\": \"FAILED\"}", "{\"status\": \"CANCELLED\"}",
     "{\"status\": \"WEIRD\"}", "{\"status\": \"completed\"}"}
LocationTexts == {NotJsonText, EmptyObjectText, "{\"uri\": \"https://signed/abc123.csv\"}"}
DownloadTexts == {"a,b\n1,2\n", "<Error>AccessDenied</Error>"}

Responses(op, texts) ==
    {[op |-> op, status_code |-> c, reason |-> Reason(c), text |-> t] :
        c \in StatusCodes, t \in texts}

NoResponse == [op |-> "none", status_code |-> 0, reason |-> "", text |-> ""]

\* Mutant of Ok: only server errors (5xx) count as failures.
OkOnlyServerErrors(r) == ~(r.status_code >= 500 /\ r.status_code < 600)

\* requests.Response.ok: raise_for_status() raises exactly for 400 <= code < 600.
Ok(r) == ~(r.status_code >= 400 /\ r.status_code < 600)

\* json.loads on the body texts above: ok is FALSE when it raises
\* JSONDecodeError, obj is the parsed object as a set of <<key, value>> members.
JsonLoads(text) ==
    CASE text = "{}" -> [ok |-> TRUE, obj |-> {}]
      [] text = "{\"access_token\": \"tokA\"}" ->
            [ok |-> TRUE, obj |-> {<<"access_token", "tokA">>}]
      [] text = "{\"queryId\": \"abc123\"}" ->
            [ok |-> TRUE, obj |-> {<<"queryId", "abc123">>}]
      [] text = "{\"uri\": \"https://signed/abc123.csv\"}" ->
            [ok |-> TRUE, obj |-> {<<"uri", "https://signed/abc123.csv">>}]
      [] text = "{\"status\": \"SUBMITTED\"}" ->
            [ok |-> TRUE, obj |-> {<<"status", "SUBMITTED">>}]
      [] text = "{\"status\": \"IN_PROGRESS\"}" ->
            [ok |-> TRUE, obj |-> {<<"status", "IN_PROGRESS">>}]
      [] text = "{\"status\": \"RUNNING\"}" ->
            [ok |-> TRUE, obj |-> {<<"status", "RUNNING">>}]
      [] text = "{\"status\": \"COMPLETED\"}" ->
            [ok |-> TRUE, obj |-> {<<"status", "COMPLETED">>}]
      [] text = "{\"status\": \"FAILED\"}" ->
            [ok |-> TRUE, obj |-> {<<"status", "FAILED">>}]
      [] text = "{\"status\": \"CANCELLED\"}" ->
            [ok |-> TRUE, obj |-> {<<"status", "CANCELLED">>}]
      [] text = "{\"status\": \"WEIRD\"}" ->
            [ok |-> TRUE, obj |-> {<<"status", "WEIRD">>}]
      [] text = "{\"status\": \"completed\"}" ->
            [ok |-> TRUE, obj |-> {<<"status", "completed">>}]
      [] OTHER -> [ok |-> FALSE, obj |-> {}]

\* Mutant of DictGet: dict.get(key), the default dropped.
DictGetNoDefault(obj, key, default) ==
    IF \E m \in obj : m[1] = key
    THEN (CHOOSE m \in obj : m[1] = key)[2]
    ELSE "None"

\* dict.get(key, default)
DictGet(obj, key, default) ==
    IF \E m \in obj : m[1] = key
    THEN (CHOOSE m \in obj : m[1] = key)[2]
    ELSE default

---------------------------------------------------------------------------
(* Exceptions *)

NoError == [type |-> "none", message |-> <<>>]
\* Mutant of RuntimeError: the reason phrase left out of the message.
RuntimeErrorWithoutReason(reason) ==
    [type |-> "RuntimeError", message |-> <<"API request failed: ", "">>]

RuntimeError(reason) ==
    [type |-> "RuntimeError", message |-> <<"API request failed: ", reason>>]
JSONDecodeError == [type |-> "JSONDecodeError", message |-> <<>>]
\* open() or f.write() failing (no permission, disk full).
OSError == [type |-> "OSError", message |-> <<>>]

---------------------------------------------------------------------------
(* Printed lines: print(f"{pre}<text>{arg}") *)

Line(pre, text, arg) == [pre |-> pre, text |-> text, arg |-> arg]

\* Mutant of CheckApiResponse: the exception names the action that failed.
CheckApiResponseNamesAction(r, action) ==
    IF ~Ok(r)
    THEN [printed |-> << Line(action, " - Response Status ", r.status_code),
                         Line("", "Request Response Error Code ", r.reason) >>,
          raised |-> [type |-> "RuntimeError",
                      message |-> <<action, " failed: ", r.reason>>]]
    ELSE [printed |-> << Line(action, " - Response Status ", r.status_code) >>,
          raised |-> NoError]

\* Mutant of CheckApiResponse: the failure is printed and not raised.
CheckApiResponseNoRaise(r, action) ==
    IF ~Ok(r)
    THEN [printed |-> << Line(action, " - Response Status ", r.status_code),
                         Line("", "Request Response Error Code ", r.reason) >>,
          raised |-> NoError]
    ELSE [printed |-> << Line(action, " - Response Status ", r.status_code) >>,
          raised |-> NoError]

\* check_api_response: the lines it prints and the exception it raises.
CheckApiResponse(r, action) ==
    IF ~Ok(r)
    THEN [printed |-> << Line(action, " - Response Status ", r.status_code),
                         Line("", "Request Response Error Code ", r.reason) >>,
          raised |-> RuntimeError(r.reason)]
    ELSE [printed |-> << Line(action, " - Response Status ", r.status_code) >>,
          raised |-> NoError]

\* What one API call of main yields: the printed lines, the exception (or
\* NoError) and, when none, the field read from the parsed body.
ApiResult(r, action, key, default) ==
    LET chk == CheckApiResponse(r, action)
        parsed == JsonLoads(r.text)
    IN  IF chk.raised # NoError
        THEN [printed |-> chk.printed, raised |-> chk.raised, value |-> default]
        ELSE IF ~parsed.ok
        THEN [printed |-> chk.printed, raised |-> JSONDecodeError, value |-> default]
        ELSE [printed |-> chk.printed, raised |-> NoError,
              value |-> DictGet(parsed.obj, key, default)]

\* monitor_query_status: the branch of the loop body a status value takes.
PendingStatuses == {"SUBMITTED", "IN_PROGRESS", "RUNNING"}
FailedStatuses == {"FAILED", "CANCELLED"}

\* Mutant of Classify: the statuses are compared ignoring case.
ClassifyIgnoringCase(status) ==
    IF status \in PendingStatuses THEN "pending"
    ELSE IF status \in {"COMPLETED", "completed"} THEN "completed"
    ELSE IF status \in FailedStatuses THEN "failed"
    ELSE "unknown"

\* Mutant of Classify: RUNNING is missing from the pending list.
ClassifyRunningNotPending(status) ==
    IF status \in {"SUBMITTED", "IN_PROGRESS"} THEN "pending"
    ELSE IF status = "COMPLETED" THEN "completed"
    ELSE IF status \in FailedStatuses THEN "failed"
    ELSE "unknown"

\* Mutant of Classify: a status that is not recognised keeps the loop going.
ClassifyUnknownPending(status) ==
    IF status \in PendingStatuses THEN "pending"
    ELSE IF status = "COMPLETED" THEN "completed"
    ELSE IF status \in FailedStatuses THEN "failed"
    ELSE "pending"

Classify(status) ==
    IF status \in PendingStatuses THEN "pending"
    ELSE IF status = "COMPLETED" THEN "completed"
    ELSE IF status \in FailedStatuses THEN "failed"
    ELSE "unknown"

\* A call as the history records it, with the clock value it was made at.
Call(op, auth, url) == [op |-> op, auth |-> auth, url |-> url, at |-> now]

\* Mutant of BearerHeaders: 'Bearer {token}' written without the f prefix.
BearerHeadersNotFormatted(tok) == [Authorization |-> <<"Bearer", "{token}">>]

\* main: headers = {..., 'Authorization': f'Bearer {token}'}
BearerHeaders(tok) == [Authorization |-> <<"Bearer", tok>>]

---------------------------------------------------------------------------
(* get_auth_token: the Basic authorization header *)

\* The base64 alphabet of RFC 4648, as base64.b64encode uses it.
StandardAlphabet ==
    <<"A", "B", "C", "D", "E", "F", "G", "H", "I", "J", "K", "L", "M",
      "N", "O", "P", "Q", "R", "S", "T", "U", "V", "W", "X", "Y", "Z",
      "a", "b", "c", "d", "e", "f", "g", "h", "i", "j", "k", "l", "m",
      "n", "o", "p", "q", "r", "s", "t", "u", "v", "w", "x", "y", "z",
      "0", "1", "2", "3", "4", "5", "6", "7", "8", "9", "+", "/">>

\* Mutant of B64Alphabet: the URL-safe alphabet of base64.urlsafe_b64encode.
UrlSafeAlphabet == [StandardAlphabet EXCEPT ![63] = "-", ![64] = "_"]

B64Alphabet == StandardAlphabet

B64Char(sextet) == B64Alphabet[sextet + 1]

\* str.encode('utf-8'): the bytes of one code point.
Utf8Bytes(cp) ==
    IF cp < 128 THEN <<cp>>
    ELSE IF cp < 2048 THEN <<192 + (cp \div 64), 128 + (cp % 64)>>
    ELSE IF cp < 65536
    THEN <<224 + (cp \div 4096), 128 + ((cp \div 64) % 64), 128 + (cp % 64)>>
    ELSE <<240 + (cp \div 262144), 128 + ((cp \div 4096) % 64),
           128 + ((cp \div 64) % 64), 128 + (cp % 64)>>

RECURSIVE Utf8EncodeFrom(_, _)
Utf8EncodeFrom(str, i) ==
    IF i > Len(str) THEN <<>>
    ELSE Utf8Bytes(str[i]) \o Utf8EncodeFrom(str, i + 1)

Utf8Encode(str) == Utf8EncodeFrom(str, 1)

\* base64.b64encode(...).decode('utf-8'): three bytes give four characters,
\* a last group of one or two bytes is padded with "=".  The result is ASCII,
\* so decoding it as UTF-8 gives one character per byte.
\* B64Group is the four characters of the g-th group of three bytes.
B64Group(bytes, g) ==
    LET has2 == 3 * g - 1 <= Len(bytes)
        has3 == 3 * g <= Len(bytes)
        b1 == bytes[3 * g - 2]
        b2 == IF has2 THEN bytes[3 * g - 1] ELSE 0
        b3 == IF has3 THEN bytes[3 * g] ELSE 0
    IN  <<B64Char(b1 \div 4),
          B64Char((b1 % 4) * 16 + (b2 \div 16)),
          IF has2 THEN B64Char((b2 % 16) * 4 + (b3 \div 64)) ELSE "=",
          IF has3 THEN B64Char(b3 % 64) ELSE "=">>

RECURSIVE B64EncodeFrom(_, _)
B64EncodeFrom(bytes, g) ==
    IF 3 * g - 2 > Len(bytes) THEN <<>>
    ELSE B64Group(bytes, g) \o B64EncodeFrom(bytes, g + 1)

B64Encode(bytes) == B64EncodeFrom(bytes, 1)

\* credentials = f"{CLIENT_ID}:{CLIENT_SECRET}" (58 is the colon)
Credentials(id, secret) == id \o <<58>> \o secret

\* 'Authorization': f'Basic {encoded_credentials}'
BasicAuth(id, secret) ==
    <<"B", "a", "s", "i", "c", " ">> \o B64Encode(Utf8Encode(Credentials(id, secret)))

NoAuth == <<"none">>

---------------------------------------------------------------------------
(* The program *)

Init ==
    /\ pc = "get_auth_token"
    /\ token = ""
    /\ headers = BearerHeaders("")
    /\ query_id = ""
    /\ query_completed = FALSE
    /\ signed_uri = ""
    /\ response = NoResponse
    /\ calls = <<>>
    /\ observed = <<>>
    /\ out = <<>>
    /\ error = NoError
    /\ now = StartTime
    /\ csv_filename = <<>>
    /\ client_id = CLIENT_ID
    /\ client_secret = CLIENT_SECRET
    /\ auth_headers = <<>>
    /\ open_files = {}
    /\ files = {}

\* main, step 1: token = get_auth_token(); headers = {...}
GetAuthToken ==
    /\ pc = "get_auth_token"
    /\ \E r \in Responses("token", TokenTexts) :
        LET res == ApiResult(r, "Get Authentication token", "access_token", "")
        IN  /\ response' = r
            /\ auth_headers' = BasicAuth(client_id, client_secret)
            /\ calls' = Append(calls, Call("token", auth_headers', login_url))
            /\ out' = res.printed
            /\ IF res.raised # NoError
               THEN /\ error' = res.raised
                    /\ pc' = "raised"
                    /\ UNCHANGED <<token, headers>>
               ELSE /\ token' = res.value
                    /\ headers' = BearerHeaders(res.value)
                    /\ pc' = "submit_query"
                    /\ UNCHANGED error
    /\ UNCHANGED <<query_id, query_completed, signed_uri, observed, now, csv_filename,
                   client_id, client_secret, open_files, files>>

\* main, step 2: query_id = submit_query(token, headers); print(...)
SubmitQuery ==
    /\ pc = "submit_query"
    /\ \E r \in Responses("submit", SubmitTexts) :
        LET res == ApiResult(r, "Execute Query", "queryId", "")
        IN  /\ response' = r
            /\ calls' = Append(calls, Call("submit", headers.Authorization, query_url))
            /\ IF res.raised # NoError
               THEN /\ error' = res.raised
                    /\ pc' = "raised"
                    /\ out' = res.printed
                    /\ UNCHANGED query_id
               ELSE /\ query_id' = res.value
                    /\ out' = res.printed
                          \o << Line("", "Query submitted with ID: ", res.value) >>
                    /\ pc' = "monitor_query_status"
                    /\ UNCHANGED error
    /\ UNCHANGED <<token, headers, query_completed, signed_uri, observed, now, csv_filename, open_files, files>>
    /\ UNCHANGED <<client_id, client_secret, auth_headers>>

\* What one iteration of the loop of monitor_query_status does with the
\* response r: the lines printed, the exception raised, the status read and
\* how the iteration ends ("raise", "continue", "return True", "return False").
MonitorIteration(r) ==
    LET res == ApiResult(r, "Get Processing status", "status", "NO_STATUS_RETURNED")
        status == res.value
        branch == Classify(status)
    IN  IF res.raised # NoError
        THEN [printed |-> res.printed, raised |-> res.raised,
              parsed |-> FALSE, status |-> status, ends |-> "raise"]
        ELSE IF branch = "pending"
        THEN [printed |-> res.printed \o
                  << Line(QUERY_STATUS_POLLING_WAIT_SECS,
                          " seconds for query to complete - Current Status: ", status) >>,
              raised |-> NoError, parsed |-> TRUE, status |-> status, ends |-> "continue"]
        ELSE IF branch = "completed"
        THEN [printed |-> res.printed \o
                  << Line("", "Query completed with status: ", status) >>,
              raised |-> NoError, parsed |-> TRUE, status |-> status, ends |-> "return True"]
        ELSE IF branch = "failed"
        THEN [printed |-> res.printed \o
                  << Line("", "Query failed with status: ", status) >>,
              raised |-> NoError, parsed |-> TRUE, status |-> status, ends |-> "return False"]
        ELSE [printed |-> res.printed \o
                  << Line("", "Error:Unknown status -", status) >>,
              raised |-> NoError, parsed |-> TRUE, status |-> status, ends |-> "return False"]

\* Mutant of AfterMonitor: main ignores what monitor_query_status returned.
AfterMonitorAlwaysDownloads(completed) ==
    [pc |-> "download_results", printed |-> <<>>]

\* Mutant of AfterMonitor: main downloads without asking for the location.
AfterMonitorSkipsLocation(completed) ==
    IF completed
    THEN [pc |-> "save_results", printed |-> <<>>]
    ELSE [pc |-> "done",
          printed |-> << Line("", "Query did not complete successfully", "") >>]

\* main: if query_completed: ... else: print(...)
AfterMonitor(completed) ==
    IF completed
    THEN [pc |-> "download_results", printed |-> <<>>]
    ELSE [pc |-> "done",
          printed |-> << Line("", "Query did not complete successfully", "") >>]

NumPending(seq) == Cardinality({i \in 1..Len(seq) : seq[i] \in PendingStatuses})

\* main, step 3: one iteration of the loop of monitor_query_status, up to its
\* sleep; on return, main's assignment of query_completed and, when it is
\* False, main's else branch.
PollStatus ==
    /\ pc = "monitor_query_status"
    /\ \E r \in Responses("status", StatusTexts) :
        LET it == MonitorIteration(r)
        IN  /\ it.ends = "continue" => NumPending(observed) < MaxPolls
            /\ response' = r
            /\ calls' = Append(calls,
                               Call("status", headers.Authorization, status_url(query_id)))
            /\ observed' = IF it.parsed THEN Append(observed, it.status) ELSE observed
            /\ error' = it.raised
            /\ CASE it.ends = "raise" ->
                      /\ pc' = "raised"
                      /\ out' = it.printed
                      /\ UNCHANGED query_completed
                 [] it.ends = "continue" ->
                      /\ pc' = "sleep"
                      /\ out' = it.printed
                      /\ UNCHANGED query_completed
                 [] it.ends \in {"return True", "return False"} ->
                      LET completed == (it.ends = "return True")
                      IN  /\ query_completed' = completed
                          /\ pc' = AfterMonitor(completed).pc
                          /\ out' = it.printed \o AfterMonitor(completed).printed
    /\ UNCHANGED <<token, headers, query_id, signed_uri, now, csv_filename, open_files, files>>
    /\ UNCHANGED <<client_id, client_secret, auth_headers>>

\* Mutant of Sleep: the poller gives up after the second pending status.
SleepGivesUp ==
    /\ pc = "sleep"
    /\ now' = now + QUERY_STATUS_POLLING_WAIT_SECS
    /\ calls' = Append(calls, Call("sleep", NoAuth, <<>>))
    /\ pc' = IF Len(observed) >= 2 THEN "done" ELSE "monitor_query_status"
    /\ UNCHANGED <<token, headers, query_id, query_completed, signed_uri, response,
                   observed, out, error, csv_filename, open_files, files>>
    /\ UNCHANGED <<client_id, client_secret, auth_headers>>

\* monitor_query_status: sleep(QUERY_STATUS_POLLING_WAIT_SECS); continue
Sleep ==
    /\ pc = "sleep"
    /\ now' = now + QUERY_STATUS_POLLING_WAIT_SECS
    /\ calls' = Append(calls, Call("sleep", NoAuth, <<>>))
    /\ pc' = "monitor_query_status"
    /\ UNCHANGED <<token, headers, query_id, query_completed, signed_uri, response,
                   observed, out, error, csv_filename, open_files, files>>
    /\ UNCHANGED <<client_id, client_secret, auth_headers>>

\* main, step 4: signed_uri = download_results(query_id, headers)
DownloadResults ==
    /\ pc = "download_results"
    /\ \E r \in Responses("location", LocationTexts) :
        LET res == ApiResult(r, "Get URI for csv file", "uri", "")
        IN  /\ response' = r
            /\ calls' = Append(calls, Call("location", headers.Authorization,
                                           download_url(query_id)))
            /\ out' = res.printed
            /\ error' = res.raised
            /\ IF res.raised # NoError
               THEN /\ pc' = "raised"
                    /\ UNCHANGED signed_uri
               ELSE /\ signed_uri' = res.value
                    /\ pc' = "save_results"
    /\ UNCHANGED <<token, headers, query_id, query_completed, observed, now, csv_filename, open_files, files>>
    /\ UNCHANGED <<client_id, client_secret, auth_headers>>

\* Mutant of SaveTime: the clock value of the submit request is used.
SaveTimeAtSubmit == calls[2].at

\* save_results: int(time()), read when save_results starts.
SaveTime == now

\* Mutant of CsvFilename: the extension is left out.
CsvFilenameNoExtension(t) == <<CSV_DOWNLOAD_PATH_PREFIX, t, "">>

\* save_results: f"{CSV_DOWNLOAD_PATH_PREFIX}{int(time())}.csv"
CsvFilename(t) == <<CSV_DOWNLOAD_PATH_PREFIX, t, ".csv">>

\* Mutant of SaveResults: the download response goes through
\* check_api_response like the API responses.
SaveResultsChecksStatus ==
    /\ pc = "save_results"
    /\ \E r \in Responses("download", DownloadTexts) :
        LET chk == CheckApiResponse(r, "Download csv file")
        IN  /\ csv_filename' = CsvFilename(SaveTime)
            /\ response' = r
            /\ calls' = Append(calls, Call("download", NoAuth, <<signed_uri>>))
            /\ out' = << Line("", "Downloading csv file to ", csv_filename') >>
                      \o chk.printed
            /\ error' = chk.raised
            /\ pc' = IF chk.raised # NoError THEN "raised" ELSE "open_file"
    /\ UNCHANGED <<token, headers, query_id, query_completed, signed_uri, observed,
                   now, open_files, files>>
    /\ UNCHANGED <<client_id, client_secret, auth_headers>>

\* main, step 5, save_results(signed_uri) up to the download: the file name
\* from the clock, the print, the GET without headers.  The response's status
\* is not looked at.
SaveResults ==
    /\ pc = "save_results"
    /\ \E r \in Responses("download", DownloadTexts) :
        /\ csv_filename' = CsvFilename(SaveTime)
        /\ response' = r
        /\ calls' = Append(calls, Call("download", NoAuth, <<signed_uri>>))
        /\ out' = << Line("", "Downloading csv file to ", csv_filename') >>
        /\ pc' = "open_file"
    /\ UNCHANGED <<token, headers, query_id, query_completed, signed_uri, observed,
                   error, now, open_files, files>>
    /\ UNCHANGED <<client_id, client_secret, auth_headers>>

\* save_results: with open(csv_filename, 'wb') as f.  Opening creates or
\* truncates the file; when open() raises, no handle exists.
OpenFile ==
    /\ pc = "open_file"
    /\ \E opened \in BOOLEAN :
        IF opened
        THEN /\ open_files' = open_files \cup {csv_filename}
             /\ files' = {f \in files : f.name # csv_filename}
                         \cup {[name |-> csv_filename, content |-> ""]}
             /\ pc' = "write_file"
             /\ UNCHANGED error
        ELSE /\ error' = OSError
             /\ pc' = "raised"
             /\ UNCHANGED <<open_files, files>>
    /\ UNCHANGED <<token, headers, query_id, query_completed, signed_uri, response,
                   calls, observed, out, now, csv_filename>>
    /\ UNCHANGED <<client_id, client_secret, auth_headers>>

\* Mutant of WithExit: the file is opened without a with block and not closed.
WithExitLeavesOpen(handles, name) == handles

\* What leaving the with block does to the open handles, on return and on an
\* exception alike: the handle on name is closed.
WithExit(handles, name) == handles \ {name}

\* save_results: f.write(response.content), the end of the with block and the
\* last print.  A write that raises leaves the file short (modelled as empty)
\* and the exception leaves save_results and main.
WriteFile ==
    /\ pc = "write_file"
    /\ \E written \in BOOLEAN :
        /\ calls' = Append(calls, Call("write", NoAuth, csv_filename))
        /\ open_files' = WithExit(open_files, csv_filename)
        /\ IF written
           THEN /\ files' = {f \in files : f.name # csv_filename}
                            \cup {[name |-> csv_filename, content |-> response.text]}
                /\ out' = Append(out, Line("", "Download Completed", ""))
                /\ pc' = "done"
                /\ UNCHANGED error
           ELSE /\ error' = OSError
                /\ pc' = "raised"
                /\ UNCHANGED <<files, out>>
    /\ UNCHANGED <<token, headers, query_id, query_completed, signed_uri, response,
                   observed, now, csv_filename>>
    /\ UNCHANGED <<client_id, client_secret, auth_headers>>

Next ==
    \/ GetAuthToken
    \/ SubmitQuery
    \/ PollStatus
    \/ Sleep
    \/ DownloadResults
    \/ SaveResults
    \/ OpenFile
    \/ WriteFile

Spec == Init /\ [][Next]_vars

\* main runs to its end: it is the only thread and every request is answered.
FairSpec == Spec /\ WF_vars(Next)

---------------------------------------------------------------------------
(* The credential encoding on its own: get_auth_token's header for every
   client id and client secret up to MaxCredLen characters *)

\* The characters tried: the colon, "?" (whose bits give the last character
\* of the alphabet), and two characters that take two and three bytes in UTF-8.
CredChars == {58, 63, 233, 8364}
CredStrings == UNION {[1..n -> CredChars] : n \in 0..MaxCredLen}

CredInit ==
    /\ pc = "encode_credentials"
    /\ client_id \in CredStrings
    /\ client_secret \in CredStrings
    /\ auth_headers = <<>>
    /\ token = ""
    /\ headers = BearerHeaders("")
    /\ query_id = ""
    /\ query_completed = FALSE
    /\ signed_uri = ""
    /\ response = NoResponse
    /\ calls = <<>>
    /\ observed = <<>>
    /\ out = <<>>
    /\ error = NoError
    /\ now = StartTime
    /\ csv_filename = <<>>
    /\ open_files = {}
    /\ files = {}

\* get_auth_token, up to the request: credentials, encoded_credentials and
\* the Authorization entry of auth_headers.
EncodeCredentials ==
    /\ pc = "encode_credentials"
    /\ auth_headers' = BasicAuth(client_id, client_secret)
    /\ pc' = "encoded"
    /\ UNCHANGED <<token, headers, query_id, query_completed, signed_uri, response,
                   calls, observed, out, error, now, csv_filename, client_id,
                   client_secret, open_files, files>>

CredNext == EncodeCredentials

CredSpec == CredInit /\ [][CredNext]_vars

---------------------------------------------------------------------------
(* Vocabulary of the properties *)

ApiOps == {"token", "submit", "status", "location"}

\* The response's status code is a client or server error (4xx, 5xx).
IsErrorStatus(r) == r.status_code \in 400..599
Is2xx(r) == r.status_code \in 200..299

\* The response is successful and its body is a JSON object.
IsParsed(r) == ~IsErrorStatus(r) /\ JsonLoads(r.text).ok

\* The status a parsed status response reports.
ReportedStatus(r) == DictGet(JsonLoads(r.text).obj, "status", "NO_STATUS_RETURNED")

HasCall(op) == \E i \in 1..Len(calls) : calls[i].op = op
CountCalls(op) == Cardinality({i \in 1..Len(calls) : calls[i].op = op})
LastCallOp == IF calls = <<>> THEN "none" ELSE calls[Len(calls)].op
Printed(text) == \E i \in 1..Len(out) : out[i].text = text
IsSleepCall(c) == c.op = "sleep"
IsRequestOrWrite(c) == c.op # "sleep"
Visible == SelectSeq(calls, IsRequestOrWrite)
VisibleOps == [i \in 1..Len(Visible) |-> Visible[i].op]
Terminated == pc \in {"done", "raised"}
NothingDownloaded ==
    /\ ~HasCall("location") /\ ~HasCall("download") /\ ~HasCall("write")
    /\ files = {}

---------------------------------------------------------------------------
(* C1 *)

\* C1, as stated: whenever the last response, from the token, submit or
\* status endpoint, is not 2xx, the run has been aborted.
C1_Non2xxAborts ==
    (response.op \in {"token", "submit", "status"} /\ ~Is2xx(response))
        => pc = "raised"

\* C1, amended: whenever the last response, from the token, submit or status
\* endpoint, has a 4xx or 5xx status code (response.ok is false), the operation
\* has raised RuntimeError, that request is the last call of the run, no file
\* has been written and no step of main can follow.
C1_ErrorStatusAborts ==
    (response.op \in {"token", "submit", "status"} /\ IsErrorStatus(response))
        => /\ pc = "raised"
           /\ error = [type |-> "RuntimeError",
                       message |-> <<"API request failed: ", response.reason>>]
           /\ LastCallOp = response.op
           /\ files = {}
           /\ ~ENABLED Next

C1_Witness ==
    /\ response.op = "status" /\ response.status_code = 500
    /\ Len(observed) = 1
    /\ pc = "raised"

---------------------------------------------------------------------------
(* C2 *)

\* C2: a result-location request, a download GET or a file write has
\* happened, or is about to, only if monitor_query_status returned True, and
\* it returned True only if the last status it read was exactly COMPLETED;
\* every status value takes exactly one of the branches pending (SUBMITTED,
\* IN_PROGRESS, RUNNING), success (COMPLETED) and failure (anything else).
C2_OnlyCompletedDownloads ==
    /\ (HasCall("location") \/ HasCall("download") \/ HasCall("write")
            \/ files # {}
            \/ pc \in {"download_results", "save_results", "open_file", "write_file"})
          => query_completed
    /\ query_completed
          => /\ observed # <<>>
             /\ observed[Len(observed)] = "COMPLETED"
    /\ \A t \in StatusTexts \ {NotJsonText} :
          LET r == [op |-> "status", status_code |-> 200, reason |-> "OK", text |-> t]
              s == ReportedStatus(r)
              ends == MonitorIteration(r).ends
          IN  /\ ends \in {"continue", "return True", "return False"}
              /\ ends = "continue" <=> s \in {"SUBMITTED", "IN_PROGRESS", "RUNNING"}
              /\ ends = "return True" <=> s = "COMPLETED"
              /\ ends = "return False"
                    <=> s \notin {"SUBMITTED", "IN_PROGRESS", "RUNNING", "COMPLETED"}

C2_Witness ==
    /\ files # {}
    /\ query_completed
    /\ observed = <<"IN_PROGRESS", "COMPLETED">>

---------------------------------------------------------------------------
(* C3 *)

IsPendingStatus(s) == s \in {"SUBMITTED", "IN_PROGRESS", "RUNNING"}
PendingSeen == Cardinality({i \in 1..Len(observed) : IsPendingStatus(observed[i])})

\* C3: while only pending statuses have been read, the poller has made one
\* status request per status read and has slept once after each of them; a
\* successful COMPLETED response makes it return True at once; and when it
\* has returned True after k pending statuses it has made exactly k+1 status
\* requests and slept exactly k times, the last call being the status request
\* (no sleep after the terminal status).  [SUBMITTED, RUNNING, COMPLETED]
\* gives three requests, two sleeps and success.
C3_PollsAndSleeps ==
    LET k == PendingSeen
    IN  /\ pc = "monitor_query_status"
              => /\ Len(observed) = k
                 /\ CountCalls("status") = k
                 /\ CountCalls("sleep") = k
        /\ pc = "sleep"
              => /\ Len(observed) = k
                 /\ CountCalls("status") = k
                 /\ CountCalls("sleep") = k - 1
        /\ (response.op = "status" /\ IsParsed(response)
                /\ IsPendingStatus(ReportedStatus(response)))
              => pc \in {"sleep", "monitor_query_status"}
        /\ (response.op = "status" /\ IsParsed(response)
                /\ ReportedStatus(response) = "COMPLETED")
              => query_completed /\ pc = "download_results"
        /\ query_completed
              => /\ Len(observed) = k + 1
                 /\ observed[k + 1] = "COMPLETED"
                 /\ CountCalls("status") = k + 1
                 /\ CountCalls("sleep") = k
                 /\ \A i \in 1..Len(calls) :
                       calls[i].op = "sleep"
                          => (i < Len(calls) /\ calls[i + 1].op = "status")
        /\ observed = <<"SUBMITTED", "RUNNING", "COMPLETED">>
              => /\ query_completed
                 /\ CountCalls("status") = 3
                 /\ CountCalls("sleep") = 2

C3_Witness ==
    /\ observed = <<"SUBMITTED", "RUNNING", "COMPLETED">>
    /\ pc = "download_results"
    /\ CountCalls("sleep") = 2

---------------------------------------------------------------------------
(* C4 *)

\* C4: when a successful status response reports FAILED or CANCELLED,
\* monitor_query_status has returned False, main has printed that the query
\* did not complete and has ended without an exception; no result-location
\* request, download GET or file write has happened, and none can follow.
C4_FailedStopsWithoutDownload ==
    (response.op = "status" /\ IsParsed(response)
        /\ ReportedStatus(response) \in {"FAILED", "CANCELLED"})
        => /\ pc = "done"
           /\ ~query_completed
           /\ error = NoError
           /\ NothingDownloaded
           /\ LastCallOp = "status"
           /\ Printed("Query failed with status: ")
           /\ out[Len(out)].text = "Query did not complete successfully"
           /\ ~ENABLED Next

C4_Witness ==
    /\ observed = <<"RUNNING", "CANCELLED">>
    /\ pc = "done"
    /\ NothingDownloaded

---------------------------------------------------------------------------
(* C5 *)

KnownStatuses == {"SUBMITTED", "IN_PROGRESS", "RUNNING", "COMPLETED", "FAILED", "CANCELLED"}

\* C5: when a successful status response reports a status that is none of the
\* six known ones (WEIRD, a lower-case "completed", or no status field), the
\* poller has stopped at once without sleeping and has returned False: the
\* run ends as for FAILED/CANCELLED, with nothing downloaded, but the line
\* printed is the unknown-status line and not the query-failed line.
C5_UnknownStatusIsFailure ==
    (response.op = "status" /\ IsParsed(response)
        /\ ReportedStatus(response) \notin KnownStatuses)
        => /\ pc = "done"
           /\ ~query_completed
           /\ error = NoError
           /\ NothingDownloaded
           /\ LastCallOp = "status"
           /\ CountCalls("sleep") = Len(observed) - 1
           /\ Printed("Error:Unknown status -")
           /\ ~Printed("Query failed with status: ")
           /\ ~ENABLED Next

C5_Witness ==
    /\ response.op = "status" /\ response.status_code = 200
    /\ response.text = "{}"
    /\ observed = <<"SUBMITTED", "NO_STATUS_RETURNED">>
    /\ pc = "done"

---------------------------------------------------------------------------
(* C6 *)

Stage(op) ==
    CASE op = "token" -> 1
      [] op = "submit" -> 2
      [] op = "status" -> 3
      [] op = "location" -> 4
      [] op = "download" -> 5
      [] op = "write" -> 6

\* C6: the requests and the file write of a run happen in the order token,
\* submit, status (one or more), result location, download, write: the first
\* call is the token request and each later call is the next stage of its
\* predecessor, or another status request after a status request.  So the
\* token, submit, location and download requests happen at most once.  A step
\* is taken only after the previous one returned: once an exception is raised
\* nothing follows, and the location is requested only after the poller
\* returned True.
C6_CallOrder ==
    /\ \A i \in 1..Len(Visible) :
          IF i = 1
          THEN Visible[i].op = "token"
          ELSE LET a == Stage(Visible[i - 1].op)
                   b == Stage(Visible[i].op)
               IN  b = a + 1 \/ (a = 3 /\ b = 3)
    /\ \A op \in {"token", "submit", "location", "download", "write"} :
          CountCalls(op) <= 1
    /\ error # NoError => (pc = "raised" /\ ~ENABLED Next)
    /\ pc = "raised" => error # NoError
    /\ HasCall("location") => query_completed
    /\ pc = "submit_query" => LastCallOp = "token"
    /\ pc = "monitor_query_status" => LastCallOp \in {"submit", "sleep"}
    /\ pc = "download_results" => LastCallOp = "status"
    /\ pc = "save_results" => LastCallOp = "location"

C6_Witness ==
    /\ pc = "done"
    /\ VisibleOps = <<"token", "submit", "status", "status", "location", "download", "write">>

---------------------------------------------------------------------------
(* C7 *)

\* C7: when a status response has a 4xx or 5xx status code, at whatever poll,
\* monitor_query_status has raised RuntimeError with the reason phrase, that
\* request is the last call (no sleep, no further status request) and the run
\* is over; and every status request after the first follows a successful
\* response that reported a pending status.
C7_StatusFailureNotRetried ==
    /\ (response.op = "status" /\ IsErrorStatus(response))
          => /\ pc = "raised"
             /\ error = [type |-> "RuntimeError",
                         message |-> <<"API request failed: ", response.reason>>]
             /\ LastCallOp = "status"
             /\ ~ENABLED Next
    /\ \A n \in 2..CountCalls("status") :
          /\ n - 1 <= Len(observed)
          /\ IsPendingStatus(observed[n - 1])
    /\ CountCalls("status") <= Len(observed) + 1

C7_Witness ==
    /\ response.op = "status" /\ response.status_code = 403
    /\ observed = <<"IN_PROGRESS", "IN_PROGRESS">>
    /\ CountCalls("status") = 3
    /\ pc = "raised"

---------------------------------------------------------------------------
(* C8 *)

Polling == pc \in {"monitor_query_status", "sleep"}
StatusResponsePending ==
    /\ response.op = "status"
    /\ IsParsed(response)
    /\ IsPendingStatus(ReportedStatus(response))
StatusResponseEndsPolling ==
    /\ response.op = "status"
    /\ ~StatusResponsePending

\* C8, safety part: after a status response, the poller is still in its loop
\* if and only if that response was successful and pending, however many polls
\* came before; and while it is in its loop no result-location request or
\* download has happened.
C8_PollingIffPending ==
    /\ response.op = "status" => (Polling <=> StatusResponsePending)
    /\ Polling => (NothingDownloaded /\ ~query_completed /\ error = NoError)
    /\ Polling => \A i \in 1..Len(observed) : IsPendingStatus(observed[i])

\* C8: the safety part holds in every state, and under fairness a status
\* response that is not pending or not successful leads to the end of the run.
C8_UnboundedPolling ==
    /\ []C8_PollingIffPending
    /\ StatusResponseEndsPolling ~> Terminated

\* The poller is still polling after as many pending statuses as the
\* environment gives.
C8_Witness ==
    /\ pc = "sleep"
    /\ PendingSeen = MaxPolls
    /\ CountCalls("status") = MaxPolls

---------------------------------------------------------------------------
(* C9 *)

\* C9: a successful response whose JSON object lacks the expected field does
\* not end the run: after such a token response token is "" and main goes on
\* to submit, after such a submit response query_id is "" and main goes on to
\* poll, after such a location response signed_uri is "" and main goes on to
\* download; and the empty value is what the next requests use (the bearer
\* token of every API request, the id in the status and location URLs, the URL
\* of the download GET).
C9_MissingFieldContinuesEmpty ==
    /\ (response.op = "token" /\ ~IsErrorStatus(response) /\ response.text = "{}")
          => /\ token = ""
             /\ headers.Authorization = <<"Bearer", "">>
             /\ pc = "submit_query"
             /\ error = NoError
    /\ (response.op = "submit" /\ ~IsErrorStatus(response) /\ response.text = "{}")
          => /\ query_id = ""
             /\ pc = "monitor_query_status"
             /\ error = NoError
    /\ (response.op = "location" /\ ~IsErrorStatus(response) /\ response.text = "{}")
          => /\ signed_uri = ""
             /\ pc = "save_results"
             /\ error = NoError
    /\ \A i \in 1..Len(calls) :
          /\ calls[i].op \in {"submit", "status", "location"}
                => calls[i].auth = <<"Bearer", token>>
          /\ calls[i].op = "status"
                => calls[i].url = <<"https://api.gardin.ag/v1/query/", query_id, "/status/">>
          /\ calls[i].op = "location"
                => calls[i].url
                     = <<"https://api.gardin.ag/v1/query/", query_id, "/result/download">>
          /\ calls[i].op = "download" => calls[i].url = <<signed_uri>>

C9_Witness ==
    /\ pc = "done"
    /\ files # {}
    /\ token = "" /\ query_id = "" /\ signed_uri = ""
    /\ \E i \in 1..Len(calls) :
          calls[i].op = "submit" /\ calls[i].auth = <<"Bearer", "">>
    /\ \E i \in 1..Len(calls) :
          calls[i].op = "status"
             /\ calls[i].url = <<"https://api.gardin.ag/v1/query/", "", "/status/">>
    /\ \E i \in 1..Len(calls) :
          calls[i].op = "download" /\ calls[i].url = <<"">>

---------------------------------------------------------------------------
(* C10 *)

\* C10, as stated: a failed token request raises an AuthenticationError and a
\* failed submit request raises a QuerySubmissionError, each carrying the
\* reason phrase.
C10_DistinctErrorKinds ==
    /\ (response.op = "token" /\ IsErrorStatus(response))
          => /\ error.type = "AuthenticationError"
             /\ error.message = <<"API request failed: ", response.reason>>
    /\ (response.op = "submit" /\ IsErrorStatus(response))
          => /\ error.type = "QuerySubmissionError"
             /\ error.message = <<"API request failed: ", response.reason>>

\* C10, amended: a failed token request and a failed submit request both
\* raise RuntimeError, whose message carries the reason phrase of the
\* response: the two failures have the same error kind.
C10_BothRuntimeError ==
    (response.op \in {"token", "submit"} /\ IsErrorStatus(response))
        => /\ pc = "raised"
           /\ error.type = "RuntimeError"
           /\ error.message = <<"API request failed: ", response.reason>>

C10_Witness ==
    /\ response.op = "submit" /\ response.status_code = 403
    /\ error.type = "RuntimeError"
    /\ error.message = <<"API request failed: ", "Forbidden">>

---------------------------------------------------------------------------
(* C11 *)

\* C11: whenever the token, submit, status or result-location request is
\* answered with a 4xx or 5xx status code, the run ends with one and the same
\* kind of exception, RuntimeError, whose message is the fixed text followed
\* by the reason phrase of that response: the exception is a function of the
\* reason phrase alone and does not tell which of the four steps failed.
C11_UniformRuntimeFailure ==
    (response.op \in {"token", "submit", "status", "location"}
        /\ IsErrorStatus(response))
        => /\ pc = "raised"
           /\ error = [type |-> "RuntimeError",
                       message |-> <<"API request failed: ", response.reason>>]

C11_Witness ==
    /\ response.op = "location" /\ response.status_code = 500
    /\ error = [type |-> "RuntimeError",
                message |-> <<"API request failed: ", "Internal Server Error">>]

---------------------------------------------------------------------------
(* C12 *)

\* C12: when the poller returned True and the result-location request is
\* answered with a 4xx or 5xx status code, download_results has raised
\* RuntimeError, the location request is the last call of the run (no download
\* GET, no write), no file exists, no handle is open and nothing can follow.
C12_LocationFailureStopsDownload ==
    (response.op = "location" /\ IsErrorStatus(response))
        => /\ query_completed
           /\ pc = "raised"
           /\ error.type = "RuntimeError"
           /\ LastCallOp = "location"
           /\ ~HasCall("download")
           /\ ~HasCall("write")
           /\ files = {}
           /\ open_files = {}
           /\ ~ENABLED Next

C12_Witness ==
    /\ response.op = "location" /\ response.status_code = 403
    /\ observed = <<"RUNNING", "COMPLETED">>
    /\ pc = "raised"
    /\ files = {}

---------------------------------------------------------------------------
(* C13 *)

\* The access token a token response's body holds ("" when it holds none).
TokenReturned(r) ==
    CASE r.text = "{\"access_token\": \"tokA\"}" -> "tokA"
      [] OTHER -> ""

\* C13, in a state: once main has left its first step exactly one token
\* request has been made, however many status requests followed; right after
\* a token response that did not raise, token is the access token of that
\* response; every submit, status and result-location request carries
\* Authorization: Bearer <token>; the download GET carries no authorization.
C13_OneTokenEverywhere ==
    /\ CountCalls("token") = (IF pc = "get_auth_token" THEN 0 ELSE 1)
    /\ (response.op = "token" /\ pc # "raised") => token = TokenReturned(response)
    /\ \A i \in 1..Len(calls) :
          /\ calls[i].op \in {"submit", "status", "location"}
                => calls[i].auth = <<"Bearer", token>>
          /\ calls[i].op = "download" => calls[i].auth = <<"none">>

\* C13: the state part holds throughout, and after the first step no step
\* changes token or headers (the token is never refreshed or replaced).
C13_TokenOncePerRun ==
    /\ []C13_OneTokenEverywhere
    /\ [][pc # "get_auth_token" => (token' = token /\ headers' = headers)]_vars

C13_Witness ==
    /\ pc = "done"
    /\ token = "tokA"
    /\ CountCalls("token") = 1
    /\ CountCalls("status") = 3
    /\ HasCall("download")
    /\ \A i \in 1..Len(calls) :
          calls[i].op \in {"submit", "status", "location"}
             => calls[i].auth = <<"Bearer", "tokA">>

---------------------------------------------------------------------------
(* C14 *)

\* The uri a result-location response's body holds ("" when it holds none).
UriReturned(r) ==
    CASE r.text = "{\"uri\": \"https://signed/abc123.csv\"}" -> "https://signed/abc123.csv"
      [] OTHER -> ""

CallsOf(op) == SelectSeq(calls, LAMBDA c : c.op = op)

\* C14, in a state: right after a result-location response that did not
\* raise, signed_uri is the uri of that response; the download GET targets
\* signed_uri; and when the run has ended without an exception after the
\* poller returned True, exactly one write has happened and exactly one file
\* exists, named gardin_query_api_results_<t>.csv with t the clock value at
\* which save_results made the download GET, and holding exactly the body of
\* the download response.
C14_FileFromSignedUri ==
    /\ (response.op = "location" /\ pc # "raised")
          => signed_uri = UriReturned(response)
    /\ \A i \in 1..Len(calls) :
          calls[i].op = "download" => calls[i].url = <<signed_uri>>
    /\ (pc = "done" /\ query_completed)
          => /\ response.op = "download"
             /\ CountCalls("download") = 1
             /\ CountCalls("write") = 1
             /\ Cardinality(files) = 1
             /\ \A f \in files :
                   /\ f.name = <<"gardin_query_api_results_",
                                 CallsOf("download")[1].at, ".csv">>
                   /\ f.name = CallsOf("write")[1].url
                   /\ f.content = response.text
             /\ open_files = {}

\* C14: the state part holds throughout, and signed_uri is assigned by the
\* result-location step only.
C14_SuccessfulRunWritesFile ==
    /\ []C14_FileFromSignedUri
    /\ [][pc # "download_results" => signed_uri' = signed_uri]_vars

C14_Witness ==
    /\ pc = "done"
    /\ observed = <<"IN_PROGRESS", "COMPLETED">>
    /\ query_id = "abc123"
    /\ signed_uri = "https://signed/abc123.csv"
    /\ response.status_code = 200
    /\ files = {[name |-> <<"gardin_query_api_results_", StartTime + 10, ".csv">>,
                 content |-> "a,b\n1,2\n"]}

---------------------------------------------------------------------------
(* C15 *)

\* The timestamp in the name of a file.
NameTime(f) == f.name[2]

\* C15, as stated: the timestamp in the name of the result file is the clock
\* value at which the query was submitted.
C15_NameEmbedsSubmitTime ==
    \A f \in files : NameTime(f) = CallsOf("submit")[1].at

\* C15, amended: the timestamp in the name of the result file is the clock
\* value at which save_results started, which is the time of the download
\* GET; it is later than the submission by at least the polling interval (10
\* seconds) for each sleep of the poller.
C15_NameEmbedsSaveTime ==
    \A f \in files :
        /\ NameTime(f) = CallsOf("download")[1].at
        /\ NameTime(f) >= CallsOf("submit")[1].at + 10 * CountCalls("sleep")

C15_Witness ==
    /\ pc = "done"
    /\ CountCalls("sleep") = 2
    /\ \E f \in files : NameTime(f) = CallsOf("submit")[1].at + 20

---------------------------------------------------------------------------
(* C16 *)

\* C16: a file handle is open only between the open and the end of the write
\* in save_results, so only after the download GET has returned, and the only
\* handle is the one on csv_filename; it is closed when the write returns and
\* when the write raises, so that in every terminal state of a run, ended
\* normally or by an exception, no handle is open.
C16_HandleScopedToWrite ==
    /\ open_files # {}
          => /\ pc = "write_file"
             /\ open_files = {csv_filename}
             /\ response.op = "download"
             /\ LastCallOp = "download"
    /\ pc = "write_file" => open_files = {csv_filename}
    /\ pc \in {"done", "raised"} => open_files = {}
    /\ HasCall("write") => open_files = {}

\* A write that raised: the file is left short and the handle is closed.
C16_Witness ==
    /\ pc = "raised"
    /\ error.type = "OSError"
    /\ LastCallOp = "write"
    /\ files # {}
    /\ open_files = {}

---------------------------------------------------------------------------
(* C18 *)

\* C18: the status of the download response decides nothing.  After the
\* download GET has returned, whatever its status code, no RuntimeError is
\* raised and save_results goes on to open and write the file: the only
\* exception possible from there is a failure of open or write itself.  When
\* the run then ends normally, the file holds the body of that response,
\* successful or not, and completion has been reported.
C18_DownloadNotStatusChecked ==
    response.op = "download"
        => /\ error.type \in {"none", "OSError"}
           /\ error = NoError => pc \in {"open_file", "write_file", "done"}
           /\ pc = "raised" => (error.type = "OSError" /\ files \subseteq
                                   {[name |-> csv_filename, content |-> ""]})
           /\ pc = "done"
                 => /\ files = {[name |-> csv_filename, content |-> response.text]}
                    /\ out[Len(out)].text = "Download Completed"
                    /\ CountCalls("write") = 1

\* An expired signed URI answering 403: the error page is saved as the result.
C18_Witness ==
    /\ pc = "done"
    /\ response.op = "download" /\ response.status_code = 403
    /\ response.text = "<Error>AccessDenied</Error>"
    /\ error = NoError
    /\ \E f \in files : f.content = "<Error>AccessDenied</Error>"
    /\ out[Len(out)].text = "Download Completed"

---------------------------------------------------------------------------
(* C17 *)

\* Base64 decoding with the standard alphabet, as base64.b64decode does it:
\* the text is valid when its length is a multiple of four, every character
\* is of the alphabet and "=" stands only as the last or the last two
\* characters.
IsB64Char(c) == \E i \in 1..64 : StandardAlphabet[i] = c
B64Value(c) == (CHOOSE i \in 1..64 : StandardAlphabet[i] = c) - 1

ValidB64(chars) ==
    LET n == Len(chars)
    IN  /\ n % 4 = 0
        /\ \A i \in 1..n :
              \/ IsB64Char(chars[i])
              \/ /\ chars[i] = "="
                 /\ i >= n - 1
                 /\ i = n - 1 => chars[n] = "="

RECURSIVE B64DecodeBytes(_)
B64DecodeBytes(chars) ==
    IF Len(chars) < 4 THEN <<>>
    ELSE LET v1 == B64Value(chars[1])
             v2 == B64Value(chars[2])
         IN  IF chars[3] = "="
             THEN <<v1 * 4 + (v2 \div 16)>>
             ELSE IF chars[4] = "="
             THEN <<v1 * 4 + (v2 \div 16),
                    (v2 % 16) * 16 + (B64Value(chars[3]) \div 4)>>
             ELSE <<v1 * 4 + (v2 \div 16),
                    (v2 % 16) * 16 + (B64Value(chars[3]) \div 4),
                    (B64Value(chars[3]) % 4) * 64 + B64Value(chars[4])>>
                  \o B64DecodeBytes(SubSeq(chars, 5, Len(chars)))

\* UTF-8 decoding of one- to four-byte sequences; <<-1>> marks bytes that are
\* not UTF-8.
RECURSIVE Utf8Decode(_)
Utf8Decode(bytes) ==
    IF bytes = <<>> THEN <<>>
    ELSE LET b == bytes[1]
             size == IF b < 128 THEN 1
                     ELSE IF b \in 192..223 THEN 2
                     ELSE IF b \in 224..239 THEN 3
                     ELSE IF b \in 240..247 THEN 4
                     ELSE 0
         IN  IF size = 0 \/ size > Len(bytes)
                \/ \E i \in 2..size : bytes[i] \notin 128..191
             THEN <<-1>>
             ELSE LET cp == CASE size = 1 -> b
                              [] size = 2 -> (b - 192) * 64 + (bytes[2] - 128)
                              [] size = 3 -> (b - 224) * 4096 + (bytes[2] - 128) * 64
                                             + (bytes[3] - 128)
                              [] size = 4 -> (b - 240) * 262144 + (bytes[2] - 128) * 4096
                                             + (bytes[3] - 128) * 64 + (bytes[4] - 128)
                  IN  <<cp>> \o Utf8Decode(SubSeq(bytes, size + 1, Len(bytes)))

\* C17: the Authorization value get_auth_token builds starts with "Basic ",
\* and what follows is valid base64 whose decoding, read as UTF-8, is exactly
\* the client id, a colon, the client secret.
C17_BasicHeaderRoundTrips ==
    auth_headers # <<>>
        => /\ Len(auth_headers) >= 6
           /\ SubSeq(auth_headers, 1, 6) = <<"B", "a", "s", "i", "c", " ">>
           /\ LET part == SubSeq(auth_headers, 7, Len(auth_headers))
              IN  /\ ValidB64(part)
                  /\ Utf8Decode(B64DecodeBytes(part))
                        = client_id \o <<58>> \o client_secret

\* The credentials e-acute and "?" : "Basic w6k6Pw==".
C17_Witness ==
    /\ pc = "encoded"
    /\ client_id = <<233>>
    /\ client_secret = <<63>>
    /\ auth_headers = <<"B", "a", "s", "i", "c", " ", "w", "6", "k", "6", "P", "w", "=", "=">>

====
